---- MODULE Spec2Model ----
(***************************************************************************)
(* Model of trivia_slack.py: the SlackTrivia adapter between the Slack RTM *)
(* client and the TriviaCore engine.                                       *)
(*                                                                         *)
(*   Spec      the event loop: handle_message (the router) and the engine  *)
(*             callbacks it leads to                                        *)
(*   SpecCache get_display_name over a moving clock                        *)
(*   SpecSend  post_message against a transport that fails some attempts   *)
(*   SpecFormat format_question over the question records                   *)
(***************************************************************************)
EXTENDS Integers, Sequences, FiniteSets, TLC

\* ------------------------------------------------------------------ bounds
MaxTries == 3          \* largest configured max_tries explored
MaxTicks == 2          \* clock advances explored in SpecCache
MaxCallbacks == 1      \* callbacks the engine makes while handling one event

\* --------------------------------------------------------------- constants
NAME_CACHE_SECONDS == 12 * 60 * 60

TriviaChannel == "C_TRIVIA"      \* self._config['trivia_channel']
OtherChannel  == "D_OTHER"
AdminUid      == "U_ADMIN"       \* self._config['trivia_core']['admin_uid']
PlayerUid     == "U_PLAYER"

Channels == {TriviaChannel, OtherChannel}
Uids     == {AdminUid, PlayerUid}
Stamps   == {"1.0"}
Texts    == {"answer"}
ErrTexts == {"bad input"}
SendTexts == {"question", "hint"}

Absent  == "<absent>"            \* a key that is not in a dict
NoneVal == "<None>"              \* Python's None

\* config['max_tries'] as loaded: any integer, zero and negative included
MaxTriesValues == (0 - 1) .. MaxTries

\* time.time() when the process starts
StartTimes == {0, NAME_CACHE_SECONDS + 1}

\* how far the clock moves between two calls
Deltas == {1, NAME_CACHE_SECONDS}

VARIABLES
    max_tries,      \* self._config['max_tries']
    now,            \* time.time()
    ticks,          \* clock advances so far
    names_cache,    \* self._names_cache: uid -> [name, time]
    fetched,        \* history: uid -> time of the lookup attempt that set the cached name
    pc,             \* "idle", or "engine" while TriviaCore.handle_message runs
    event,          \* the inbound event being handled (a one-element sequence) or <<>>
    engine_calls,   \* calls of TriviaCore.handle_message made for that event
    reqs,           \* web_client requests issued since that event arrived
    escaped,        \* an exception left handle_message for that event
    ncb,            \* callbacks the engine has made for that event
    last            \* outcome of the most recent adapter function call

vars == <<max_tries, now, ticks, names_cache, fetched, pc, event,
          engine_calls, reqs, escaped, ncb, last>>

\* ------------------------------------------------------------------ events
Events ==
    [type : {"message", "hello"},
     subtype : {Absent, "bot_message"},
     thread_ts : {Absent, "0.5"},
     channel : Channels,
     user : Uids,
     text : Texts,
     ts : Stamps]

\* ------------------------------------------------------------ post_message

\* the transport: for each attempt of one call, whether chat_postMessage succeeds
Transports == [1 .. MaxTries -> BOOLEAN]

\* the transports explored inside the event loop: k failures, then success
LoopTransports == {[i \in 1 .. MaxTries |-> i > k] : k \in 0 .. MaxTries}

AttemptFails(transport, attempt) == ~transport[attempt]

MaxNoFloor(a, b) == a
Max(a, b) == IF a > b THEN a ELSE b

ChatPostMessage(message_args) ==
    [api |-> "chat_postMessage", channel |-> message_args.channel,
     text |-> message_args.text]

\* the loop with the send result stored instead of returned: it keeps sending
RECURSIVE PostLoopKeepsSending(_, _, _, _)
PostLoopKeepsSending(tries, message_args, transport, st) ==
    IF tries < Max(max_tries, 1)
    THEN LET t == tries + 1
             sent == [st EXCEPT !.attempts = @ + 1,
                                !.sent = Append(@, ChatPostMessage(message_args))]
         IN  IF AttemptFails(transport, t)
             THEN PostLoopKeepsSending(t, message_args, transport,
                           [sent EXCEPT !.logs = @ + 1, !.sleeps = @ + 1,
                                        !.trail = Append(Append(@, "send"), "sleep")])
             ELSE PostLoopKeepsSending(t, message_args, transport,
                           [sent EXCEPT !.ret = "response", !.trail = Append(@, "send")])
    ELSE st

RECURSIVE PostLoop(_, _, _, _)
PostLoop(tries, message_args, transport, st) ==
    IF tries < Max(max_tries, 1)
    THEN LET t == tries + 1
             sent == [st EXCEPT !.attempts = @ + 1,
                                !.sent = Append(@, ChatPostMessage(message_args))]
         IN  IF AttemptFails(transport, t)
             THEN PostLoop(t, message_args, transport,
                           [sent EXCEPT !.logs = @ + 1, !.sleeps = @ + 1,
                                        !.trail = Append(Append(@, "send"), "sleep")])
             ELSE [sent EXCEPT !.ret = "response", !.trail = Append(@, "send")]
    ELSE st

post_message(message_args, transport) ==
    PostLoop(0, message_args, transport,
             [attempts |-> 0, logs |-> 0, sleeps |-> 0, ret |-> NoneVal,
              raised |-> FALSE, sent |-> <<>>, trail |-> <<>>])

\* -------------------------------------------------------- get_display_name

NoUser  == "(no user)"
Unknown == "???"

\* what web_client.users_info does for one call: it returns a profile, raises
\* SlackApiError (the API answered with an error such as user_not_found), or
\* raises something else (the request never got an answer)
Profiles ==
    [display_name_normalized : {Absent, NoneVal, "", "Al"},
     real_name_normalized : {Absent, NoneVal, "", "Alice"}]
Lookups ==
    [kind : {"ok"}, profile : Profiles]
        \cup [kind : {"SlackApiError", "OtherError"}]

\* the lookups explored inside the event loop: a named user, an API error, no answer
LoopLookups ==
    {l \in Lookups : l.kind = "ok" =>
        (l.profile.display_name_normalized = "Al"
            /\ l.profile.real_name_normalized = "Alice")}

Usable(v) == v # Absent /\ v # NoneVal /\ v # ""

\* name_priority with its two entries swapped
PickNameRealFirst(user) ==
    IF Usable(user.real_name_normalized) THEN user.real_name_normalized
    ELSE IF Usable(user.display_name_normalized) THEN user.display_name_normalized
    ELSE NoneVal

\* lines 92-97: the first usable field of name_priority, else None
PickName(user) ==
    IF Usable(user.display_name_normalized) THEN user.display_name_normalized
    ELSE IF Usable(user.real_name_normalized) THEN user.real_name_normalized
    ELSE NoneVal

CachedEntry(cache, uid) ==
    IF uid \in DOMAIN cache THEN cache[uid] ELSE [name |-> Unknown, time |-> 0]

IsStale(t, name_time) == t > name_time + NAME_CACHE_SECONDS

Truthy(name) == name # NoneVal /\ name # ""

Put(cache, uid, entry) ==
    [u \in DOMAIN cache \cup {uid} |-> IF u = uid THEN entry ELSE cache[u]]

\* one call of get_display_name(uid) at time t against cache, the lookup (if
\* one is made) ending as `lookup`
get_display_name(cache, t, uid, lookup) ==
    LET entry == CachedEntry(cache, uid)
        stale == IsStale(t, entry.time)
        request == [api |-> "users_info", user |-> uid]
    IN  IF stale /\ lookup.kind = "OtherError"
        THEN [ret |-> NoneVal, raised |-> TRUE, lookups |-> 1,
              sent |-> <<request>>, cache |-> cache]
        ELSE LET name == IF ~stale THEN entry.name
                         ELSE IF lookup.kind = "ok" THEN PickName(lookup.profile)
                         ELSE NoneVal
                 final == IF Truthy(name) THEN name ELSE NoUser
             IN  [ret |-> final, raised |-> FALSE,
                  lookups |-> IF stale THEN 1 ELSE 0,
                  sent |-> IF stale THEN <<request>> ELSE <<>>,
                  cache |-> Put(cache, uid, [name |-> final, time |-> t])]

\* --------------------------------------------------------- format_question

\* question dicts as TriviaCore hands them over: 'winning_user' and 'comment'
\* may be missing keys, and 'comment' may be None or empty
Scores == {7, 1234, 1000000}
WinningUsers == [uid : Uids, score : Scores, rank : {2}]
Comments == {NoneVal, "", "tricky"}
QuestionBase ==
    [winning_answer : {"Paris"}, year : {1998}, category : {"Geography"},
     value : {400}, question : {"Capital of France?"}]

WithField(q, key, v) ==
    [k \in DOMAIN q \cup {key} |-> IF k = key THEN v ELSE q[k]]

Questions ==
    LET commented == QuestionBase
                        \cup {WithField(q, "comment", c) : q \in QuestionBase, c \in Comments}
    IN  commented
            \cup {WithField(q, "winning_user", u) : q \in commented, u \in WinningUsers}

\* the questions explored inside the event loop
LoopQuestions ==
    {q \in Questions :
        /\ "winning_user" \in DOMAIN q =>
              (q.winning_user.score = 1234 /\ q.winning_user.uid = PlayerUid)
        /\ "comment" \in DOMAIN q => q.comment = "tricky"
        /\ "comment" \notin DOMAIN q => "winning_user" \in DOMAIN q}

\* Python's format spec ',' on a non-negative group of digits
Pad3(r) ==
    IF r < 10 THEN "00" \o ToString(r)
    ELSE IF r < 100 THEN "0" \o ToString(r)
    ELSE ToString(r)

RECURSIVE Group(_)
Group(n) ==
    IF n < 1000 THEN ToString(n)
    ELSE Group(n \div 1000) \o "," \o Pad3(n % 1000)

\* f'{n:,}'
Thousands(n) == IF n < 0 THEN "-" \o Group(0 - n) ELSE Group(n)

\* lines 43-44
Line1Correct(question, user, username) ==
    "Correct: *" \o question.winning_answer \o "* "
        \o "-- " \o username \o " (today: " \o Thousands(user.score)
        \o " #" \o ToString(user.rank) \o ")"

\* line 46
Line1Answer(question) == "Answer: *" \o question.winning_answer \o "*"

\* lines 48-51, for a question that has the 'comment' key
Line2(question) ==
    "(" \o ToString(question.year) \o ") *" \o question.category \o "* "
        \o "for *" \o ToString(question.value) \o "*"
        \o (IF Truthy(question.comment)
            THEN " _" \o question.comment \o "_" ELSE "")

\* line 53
Line3(question) == ">" \o question.question

\* one call of format_question(question) at time t against cache (lines 35-55);
\* question['comment'] raises KeyError when the key is missing
format_question(question, cache, t, lookup) ==
    LET winner == "winning_user" \in DOMAIN question
        r == IF winner
             THEN get_display_name(cache, t, question.winning_user.uid, lookup)
             ELSE [ret |-> NoneVal, raised |-> FALSE, lookups |-> 0,
                   sent |-> << >>, cache |-> cache]
    IN  IF r.raised \/ "comment" \notin DOMAIN question
        THEN [ret |-> NoneVal, raised |-> TRUE, resolve |-> r]
        ELSE [ret |-> (IF winner
                       THEN Line1Correct(question, question.winning_user, r.ret)
                       ELSE Line1Answer(question))
                      \o "\n" \o Line2(question) \o "\n" \o Line3(question),
              raised |-> FALSE, resolve |-> r]

\* ---------------------------------------------------------- the web client

\* reactions_add and chat_postEphemeral either answer or raise
Answers == {"ok", "raise"}

ReactionsAdd(channel, name, timestamp) ==
    [api |-> "reactions_add", channel |-> channel, name |-> name,
     timestamp |-> timestamp]

ChatPostEphemeral(channel, user, text) ==
    [api |-> "chat_postEphemeral", channel |-> channel, user |-> user,
     text |-> text]

\* ------------------------------------------------------------------ router

\* the filter without its thread_ts test
FilteredIgnoringThreads(e) ==
    \/ e.type # "message"
    \/ e.subtype # Absent
    \/ (e.channel # TriviaChannel /\ e.user # AdminUid)

\* lines 163-169: the condition under which handle_message returns at once
Filtered(e) ==
    \/ e.type # "message"
    \/ e.subtype # Absent
    \/ e.thread_ts # Absent
    \/ (e.channel # TriviaChannel /\ e.user # AdminUid)

\* lines 172-176: the call into the engine
EngineCall(e) == [uid |-> e.user, text |-> e.text, message_payload |-> e]

\* handle_message without the return of line 170
RouteFallingThrough(e) == <<EngineCall(e)>>

\* lines 163-176: the engine calls handle_message makes for event e
Route(e) == IF Filtered(e) THEN << >> ELSE <<EngineCall(e)>>

\* ------------------------------------------------------- engine callbacks

\* lines 150-159: the reaction is attempted, whatever it raises is logged
correct_answer(message_payload, answer) ==
    [sent |-> <<ReactionsAdd(TriviaChannel, "white_check_mark", message_payload.ts)>>,
     raised |-> FALSE,
     logged |-> answer = "raise"]

\* the error handler written like correct_answer: both calls attempted, failures logged
error_swallowing(message_payload, text, react, ephemeral) ==
    [sent |-> <<ReactionsAdd(message_payload.channel, "x", message_payload.ts),
                ChatPostEphemeral(message_payload.channel, message_payload.user, text)>>,
     raised |-> FALSE]

\* lines 178-193: reaction, then ephemeral message, nothing caught
error(message_payload, text, react, ephemeral) ==
    LET user == message_payload.user
        ts == message_payload.ts
        channel == message_payload.channel
        reaction == ReactionsAdd(channel, "x", ts)
    IN  IF react = "raise"
        THEN [sent |-> <<reaction>>, raised |-> TRUE]
        ELSE [sent |-> <<reaction, ChatPostEphemeral(channel, user, text)>>,
              raised |-> ephemeral = "raise"]

\* lines 126-134
show_message(message, transport) ==
    post_message([channel |-> TriviaChannel, text |-> message], transport)

\* show_reply addressing the trivia channel like the other two handlers
show_reply_to_trivia(message, message_payload, transport) ==
    post_message([channel |-> TriviaChannel, text |-> message], transport)

\* lines 136-144
show_reply(message, message_payload, transport) ==
    post_message([channel |-> message_payload.channel, text |-> message], transport)

\* lines 114-124: format, then send; a raise while formatting ends the handler
show_question(question, cache, t, lookup, transport) ==
    LET f == format_question(question, cache, t, lookup)
    IN  IF f.raised
        THEN [formatted |-> f, raised |-> TRUE, chat |-> << >>,
              sent |-> f.resolve.sent]
        ELSE LET r == post_message([channel |-> TriviaChannel, text |-> f.ret],
                                   transport)
             IN  [formatted |-> f, raised |-> r.raised, chat |-> r.sent,
                  sent |-> f.resolve.sent \o r.sent]

\* ----------------------------------------------------------------- actions

\* the adapter right after __init__ (lines 22-30): nothing cached, no event yet
Started ==
    /\ ticks = 0
    /\ names_cache = << >>
    /\ fetched = << >>
    /\ pc = "idle"
    /\ event = << >>
    /\ engine_calls = << >>
    /\ reqs = << >>
    /\ escaped = FALSE
    /\ ncb = 0
    /\ last = [op |-> "none"]

Init ==
    /\ max_tries \in MaxTriesValues
    /\ now = NAME_CACHE_SECONDS + 1
    /\ Started

\* the cache on its own: the retry limit plays no part, the clock may start anywhere
InitCache ==
    /\ max_tries = 1
    /\ now \in StartTimes
    /\ Started

config == <<max_tries>>
clock == <<now, ticks>>
cache_vars == <<names_cache, fetched>>
loop_vars == <<pc, event, engine_calls, reqs, escaped, ncb>>

\* the clock moves on while the process waits
Tick(d) ==
    /\ pc = "idle"
    /\ ticks < MaxTicks
    /\ ticks' = ticks + 1
    /\ now' = now + d
    /\ UNCHANGED <<config, cache_vars, loop_vars, last>>

\* the cache and its history after a get_display_name call that ended as r
CacheAfter(uid, r) ==
    /\ names_cache' = r.cache
    /\ fetched' = IF r.lookups = 1 /\ ~r.raised
                  THEN Put(fetched, uid, now) ELSE fetched

ResolveRecord(op, uid, lookup, r) ==
    [op |-> op, uid |-> uid, t |-> now,
     cached |-> uid \in DOMAIN names_cache,
     prev |-> CachedEntry(names_cache, uid),
     lookup |-> IF r.lookups = 1 THEN lookup.kind ELSE "none",
     profile |-> IF r.lookups = 1 /\ lookup.kind = "ok" THEN lookup.profile
                 ELSE [display_name_normalized |-> Absent,
                       real_name_normalized |-> Absent],
     ret |-> r.ret, raised |-> r.raised, lookups |-> r.lookups]

\* SlackTrivia.get_display_name called directly (lines 73-106)
GetDisplayName(uid, lookup) ==
    /\ pc = "idle"
    /\ LET r == get_display_name(names_cache, now, uid, lookup)
       IN  /\ CacheAfter(uid, r)
           /\ last' = ResolveRecord("get_display_name", uid, lookup, r)
    /\ UNCHANGED <<config, clock, loop_vars>>

\* SlackTrivia.post_message called directly (lines 57-71)
PostMessage(message_args, transport) ==
    /\ pc = "idle"
    /\ last' = [op |-> "post_message", args |-> message_args,
                transport |-> transport,
                res |-> post_message(message_args, transport)]
    /\ UNCHANGED <<config, clock, cache_vars, loop_vars>>

\* lines 161-176: an inbound event reaches handle_message
HandleMessage(e) ==
    /\ pc = "idle"
    /\ event' = <<e>>
    /\ reqs' = << >>
    /\ escaped' = FALSE
    /\ ncb' = 0
    /\ engine_calls' = Route(e)
    /\ pc' = IF Route(e) = << >> THEN "idle" ELSE "engine"
    /\ last' = [op |-> "handle_message", event |-> e]
    /\ UNCHANGED <<config, clock, cache_vars>>

\* The engine is opaque.  While its handle_message runs it invokes callbacks;
\* when one raises, the engine either lets the exception through to the
\* adapter's handle_message, which catches nothing, or absorbs it.
AfterCallback(sent, raised, absorbs) ==
    /\ pc = "engine"
    /\ ncb < MaxCallbacks
    /\ absorbs => raised          \* there is something to absorb only after a raise
    /\ ncb' = ncb + 1
    /\ reqs' = reqs \o sent
    /\ IF raised /\ ~absorbs
       THEN pc' = "idle" /\ escaped' = TRUE
       ELSE pc' = pc /\ escaped' = escaped
    /\ UNCHANGED <<config, clock, event, engine_calls>>

CorrectAnswer(answer, absorbs) ==
    LET payload == engine_calls[1].message_payload
        r == correct_answer(payload, answer)
    IN  /\ AfterCallback(r.sent, r.raised, absorbs)
        /\ last' = [op |-> "correct_answer", payload |-> payload,
                    answer |-> answer, sent |-> r.sent, raised |-> r.raised]
        /\ UNCHANGED cache_vars

Error(text, react, ephemeral, absorbs) ==
    LET payload == engine_calls[1].message_payload
        r == error(payload, text, react, ephemeral)
    IN  /\ AfterCallback(r.sent, r.raised, absorbs)
        /\ last' = [op |-> "error", payload |-> payload, text |-> text,
                    react |-> react, ephemeral |-> ephemeral,
                    sent |-> r.sent, raised |-> r.raised]
        /\ UNCHANGED cache_vars

ShowMessage(message, transport, absorbs) ==
    LET r == show_message(message, transport)
    IN  /\ AfterCallback(r.sent, r.raised, absorbs)
        /\ last' = [op |-> "show_message", message |-> message, res |-> r]
        /\ UNCHANGED cache_vars

ShowReply(message, transport, absorbs) ==
    LET payload == engine_calls[1].message_payload
        r == show_reply(message, payload, transport)
    IN  /\ AfterCallback(r.sent, r.raised, absorbs)
        /\ last' = [op |-> "show_reply", message |-> message, payload |-> payload,
                    res |-> r]
        /\ UNCHANGED cache_vars

\* lines 146-148
OnGetDisplayName(uid, lookup, absorbs) ==
    LET r == get_display_name(names_cache, now, uid, lookup)
    IN  /\ AfterCallback(r.sent, r.raised, absorbs)
        /\ CacheAfter(uid, r)
        /\ last' = ResolveRecord("on_get_display_name", uid, lookup, r)

\* the uid format_question resolves for a question, if any
WinnerUid(question) ==
    IF "winning_user" \in DOMAIN question THEN question.winning_user.uid ELSE ""

\* lines 114-124
ShowQuestion(question, lookup, transport, absorbs) ==
    LET r == show_question(question, names_cache, now, lookup, transport)
    IN  /\ AfterCallback(r.sent, r.raised, absorbs)
        /\ CacheAfter(WinnerUid(question), r.formatted.resolve)
        /\ last' = [op |-> "show_question", question |-> question,
                    text |-> r.formatted.ret,
                    format_raised |-> r.formatted.raised,
                    chat |-> r.chat, raised |-> r.raised]

\* SlackTrivia.format_question called directly (lines 35-55)
FormatQuestion(question, lookup) ==
    /\ pc = "idle"
    /\ LET f == format_question(question, names_cache, now, lookup)
       IN  /\ CacheAfter(WinnerUid(question), f.resolve)
           /\ last' = [op |-> "format_question", question |-> question,
                       username |-> f.resolve.ret,
                       lookup |-> IF f.resolve.lookups = 1 THEN lookup.kind ELSE "none",
                       ret |-> f.ret, raised |-> f.raised]
    /\ UNCHANGED <<config, clock, loop_vars>>

\* the engine's handle_message returns
EngineReturn ==
    /\ pc = "engine"
    /\ pc' = "idle"
    /\ UNCHANGED <<config, clock, cache_vars, event, engine_calls, reqs,
                   escaped, ncb, last>>

Next ==
    \/ \E e \in Events : HandleMessage(e)
    \/ \E a \in Answers, c \in BOOLEAN : CorrectAnswer(a, c)
    \/ \E x \in ErrTexts, a \in Answers, b \in Answers, c \in BOOLEAN :
          Error(x, a, b, c)
    \/ \E m \in Texts, tr \in LoopTransports, c \in BOOLEAN : ShowMessage(m, tr, c)
    \/ \E m \in Texts, tr \in LoopTransports, c \in BOOLEAN : ShowReply(m, tr, c)
    \/ \E u \in Uids, l \in LoopLookups, c \in BOOLEAN : OnGetDisplayName(u, l, c)
    \/ \E q \in LoopQuestions, l \in LoopLookups, tr \in LoopTransports, c \in BOOLEAN :
          ShowQuestion(q, l, tr, c)
    \/ EngineReturn

Spec == Init /\ [][Next]_vars

NextCache ==
    \/ \E d \in Deltas : Tick(d)
    \/ \E u \in Uids, l \in Lookups : GetDisplayName(u, l)

SpecCache == InitCache /\ [][NextCache]_vars

NextFormat ==
    \E q \in Questions, l \in Lookups : FormatQuestion(q, l)

SpecFormat == InitCache /\ [][NextFormat]_vars

NextSend ==
    \E c \in Channels, m \in SendTexts, tr \in Transports :
        PostMessage([channel |-> c, text |-> m], tr)

SpecSend == Init /\ [][NextSend]_vars

\* ================================================================= claims

\* the router's condition as the specification words it
Accepted(e) ==
    /\ e.type = "message"
    /\ e.subtype = Absent
    /\ e.thread_ts = Absent
    /\ (e.channel = TriviaChannel \/ e.user = AdminUid)

\* C1: an inbound event is forwarded to the engine if and only if it is a plain
\* message with no subtype and no thread_ts, from the trivia channel or from the
\* admin; a forwarded event yields exactly one engine call, with uid =
\* event.user, text = event.text and payload = the event.
C1_RouterForwardsIff ==
    event # << >> =>
        LET e == event[1]
        IN  /\ Len(engine_calls) <= 1
            /\ (Len(engine_calls) = 1) <=> Accepted(e)
            /\ (e.subtype # Absent \/ e.thread_ts # Absent) => engine_calls = << >>
            /\ (e.channel # TriviaChannel /\ e.user # AdminUid) => engine_calls = << >>
            /\ Accepted(e) =>
                  /\ engine_calls[1].uid = e.user
                  /\ engine_calls[1].text = e.text
                  /\ engine_calls[1].message_payload = e

\* C1 witness: an admin's message from another channel was forwarded
C1_Witness ==
    /\ event # << >>
    /\ event[1].channel = OtherChannel
    /\ event[1].user = AdminUid
    /\ Len(engine_calls) = 1

PermanentlyFailing(transport) == \A i \in DOMAIN transport : ~transport[i]

\* C2: against a transport that fails every attempt, post_message makes exactly
\* max(max_tries, 1) attempts, returns None and raises nothing, whatever
\* max_tries is configured (zero and negative values included).
C2_GivesUpAfterMaxTries ==
    (last.op = "post_message" /\ PermanentlyFailing(last.transport)) =>
        /\ last.res.attempts = (IF max_tries >= 1 THEN max_tries ELSE 1)
        /\ Len(last.res.sent) = last.res.attempts
        /\ last.res.ret = NoneVal
        /\ ~last.res.raised

\* C2 witness: max_tries is 0, the transport never succeeds, one attempt was made
C2_Witness ==
    /\ last.op = "post_message"
    /\ PermanentlyFailing(last.transport)
    /\ max_tries = 0
    /\ last.res.attempts = 1

IsResolve(r) == r.op \in {"get_display_name", "on_get_display_name"}

LookupFailed(r) == r.lookup \in {"SlackApiError", "OtherError"}

\* C3: of two get_display_name calls for one uid made within NAME_CACHE_SECONDS
\* of each other the second makes no platform lookup, and a call made after the
\* window has passed makes exactly one.
C3_NoSecondLookupInWindow ==
    [][(/\ IsResolve(last) /\ IsResolve(last')
        /\ last' # last
        /\ last'.uid = last.uid)
       => /\ last'.t <= last.t + NAME_CACHE_SECONDS => last'.lookups = 0
          /\ last'.t > last.t + NAME_CACHE_SECONDS => last'.lookups = 1]_vars

\* C4: a name that get_display_name returns comes from a platform lookup made
\* at most NAME_CACHE_SECONDS before the call.
C4_StalenessWithinTtl ==
    (IsResolve(last) /\ ~last.raised /\ last.uid \in DOMAIN fetched) =>
        last.t - fetched[last.uid] <= NAME_CACHE_SECONDS

\* C5: when the platform lookup fails, the cache entry of the uid is written
\* with the current time all the same, and with no prior cached name the call
\* returns "(no user)".
C5_FailedLookupStillCached ==
    (IsResolve(last) /\ LookupFailed(last)) =>
        /\ last.uid \in DOMAIN names_cache
        /\ names_cache[last.uid].time = last.t
        /\ ~last.cached => last.ret = NoUser

\* C6: get_display_name never fails: whatever the lookup does, the call raises
\* nothing and returns a name, the placeholder when the lookup failed.
C6_ResolveNeverFails ==
    IsResolve(last) =>
        /\ ~last.raised
        /\ Truthy(last.ret)
        /\ LookupFailed(last) => last.ret = NoUser

\* C7: the affirmative reaction of correct_answer goes to the original message:
\* it carries the payload's timestamp and the payload's channel.
C7_ReactionOnOriginalMessage ==
    last.op = "correct_answer" =>
        /\ Len(last.sent) = 1
        /\ last.sent[1].api = "reactions_add"
        /\ last.sent[1].timestamp = last.payload.ts
        /\ last.sent[1].channel = last.payload.channel

\* C8: no failure of a platform call made while an inbound event is handled
\* leaves the event handler as an exception.
C8_NothingEscapesHandler == ~escaped

\* C9: on_error first adds the "x" reaction to the original message, then
\* sends the ephemeral message with the error text to the payload's user in the
\* payload's channel; a failure of either call leaves the handler as an
\* exception, and after a failed reaction the ephemeral message is not sent.
C9_ErrorReactsThenNotifies ==
    last.op = "error" =>
        /\ Len(last.sent) >= 1
        /\ last.sent[1] = [api |-> "reactions_add", channel |-> last.payload.channel,
                           name |-> "x", timestamp |-> last.payload.ts]
        /\ last.react = "raise" => (last.raised /\ Len(last.sent) = 1)
        /\ last.react = "ok" =>
              /\ Len(last.sent) = 2
              /\ last.sent[2] = [api |-> "chat_postEphemeral",
                                 channel |-> last.payload.channel,
                                 user |-> last.payload.user, text |-> last.text]
              /\ last.raised <=> (last.ephemeral = "raise")

\* C9 witness: the reaction call failed inside on_error
C9_Witness ==
    /\ last.op = "error"
    /\ last.react = "raise"
    /\ last.raised

\* C10: handling an event the filter rejects is a no-op: no engine call, no
\* platform request, the name cache as it was, nothing raised.
C10_DroppedEventIsNoOp ==
    [][(/\ last'.op = "handle_message"
        /\ (last' # last \/ event' # event)
        /\ ~Accepted(last'.event))
       => /\ engine_calls' = << >>
          /\ reqs' = << >>
          /\ names_cache' = names_cache
          /\ ~escaped'
          /\ pc' = "idle"]_vars

\* C10 witness: an event was dropped while the name cache held an entry
C10_Witness ==
    /\ last.op = "handle_message"
    /\ ~Accepted(last.event)
    /\ names_cache # << >>
    /\ engine_calls = << >>

\* the retry ceiling as the specification words it
Ceiling == IF max_tries >= 1 THEN max_tries ELSE 1

\* the attempt on which the transport first succeeds, 0 when none within the ceiling
FirstSuccess(transport) ==
    IF \E k \in 1 .. Ceiling : transport[k]
    THEN CHOOSE k \in 1 .. Ceiling :
            transport[k] /\ \A j \in 1 .. (k - 1) : ~transport[j]
    ELSE 0

\* C13: post_message stops at the first successful attempt: when the transport
\* first succeeds on attempt k within the ceiling, exactly k sends are made and
\* the result of attempt k is returned; no call makes more than
\* max(max_tries, 1) attempts.
C13_StopsAtFirstSuccess ==
    last.op = "post_message" =>
        LET k == FirstSuccess(last.transport)
        IN  /\ last.res.attempts <= Ceiling
            /\ Len(last.res.sent) = last.res.attempts
            /\ k >= 1 =>
                  /\ last.res.attempts = k
                  /\ last.res.ret = "response"
                  /\ last.res.trail[Len(last.res.trail)] = "send"

\* C13 witness: the transport failed once and then succeeded on attempt 2
C13_Witness ==
    /\ last.op = "post_message"
    /\ FirstSuccess(last.transport) = 2
    /\ last.res.attempts = 2

\* C14: the 1-second sleep is taken between attempts only: a call of n attempts
\* sleeps n - 1 times, never after its final attempt, and logs each failed
\* attempt.
C14_SleepsOnlyBetweenAttempts ==
    (last.op = "post_message" /\ last.res.attempts >= 1) =>
        /\ last.res.sleeps = last.res.attempts - 1
        /\ last.res.trail[Len(last.res.trail)] = "send"
        /\ last.res.logs =
              Cardinality({i \in 1 .. last.res.attempts : ~last.transport[i]})

\* C15: every get_display_name call leaves the uid's cache entry equal to (the
\* name it returned, the time of the call), and that name is neither empty nor
\* None.
C15_EntryIsReturnedNameAndNow ==
    IsResolve(last) =>
        /\ last.uid \in DOMAIN names_cache
        /\ names_cache[last.uid] = [name |-> last.ret, time |-> last.t]
        /\ last.ret # NoneVal
        /\ last.ret # ""

Present(v) == v # Absent /\ v # NoneVal /\ v # ""

\* C17: after a successful lookup the resolved name is the display name if it
\* is present and non-empty, otherwise the real name if it is present and
\* non-empty, otherwise "(no user)".
C17_FirstNonEmptyField ==
    (IsResolve(last) /\ last.lookup = "ok") =>
        last.ret =
            (IF Present(last.profile.display_name_normalized)
             THEN last.profile.display_name_normalized
             ELSE IF Present(last.profile.real_name_normalized)
             THEN last.profile.real_name_normalized
             ELSE "(no user)")

\* C17 witness: the display name came back empty and the real name was used
C17_Witness ==
    /\ IsResolve(last)
    /\ last.lookup = "ok"
    /\ last.profile.display_name_normalized = ""
    /\ last.profile.real_name_normalized = "Alice"
    /\ last.ret = "Alice"

\* C18: when a stale entry holds a real name and the refresh lookup fails or
\* yields no non-empty field, the call returns "(no user)" and overwrites the
\* entry with it.
C18_FailedRefreshDropsName ==
    (/\ IsResolve(last)
     /\ last.cached
     /\ last.prev.name \notin {NoUser, Unknown}
     /\ last.lookups = 1
     /\ \/ LookupFailed(last)
        \/ /\ last.lookup = "ok"
           /\ ~Present(last.profile.display_name_normalized)
           /\ ~Present(last.profile.real_name_normalized))
    => /\ ~last.raised
       /\ last.ret = NoUser
       /\ last.uid \in DOMAIN names_cache
       /\ names_cache[last.uid].name = NoUser

AllTo(sent, channel, text) ==
    \A i \in 1 .. Len(sent) :
        sent[i] = [api |-> "chat_postMessage", channel |-> channel, text |-> text]

\* a send made through the retrying post_message: at least one attempt, never
\* more than the ceiling, the ceiling reached when every attempt failed, and
\* nothing raised
Retried(res) ==
    /\ Len(res.sent) >= 1
    /\ Len(res.sent) <= Ceiling
    /\ res.ret = NoneVal => Len(res.sent) = Ceiling
    /\ ~res.raised

\* C11: post_reply addresses every message it sends to the channel of the
\* original event payload, post_question and post_message address theirs to the
\* configured trivia channel, and each sends through the retrying post_message,
\* so a send failure never leaves the handler.
C11_OutboundAddressing ==
    /\ last.op = "show_reply" =>
          /\ AllTo(last.res.sent, last.payload.channel, last.message)
          /\ Retried(last.res)
    /\ last.op = "show_message" =>
          /\ AllTo(last.res.sent, "C_TRIVIA", last.message)
          /\ Retried(last.res)
    /\ last.op = "show_question" =>
          /\ AllTo(last.chat, "C_TRIVIA", last.text)
          /\ Len(last.chat) <= Ceiling
          /\ ~last.format_raised => Len(last.chat) >= 1
          /\ last.raised => (last.format_raised /\ last.chat = << >>)

\* C11 witness: a reply to the admin outside the trivia channel, every attempt failing
C11_Witness ==
    /\ last.op = "show_reply"
    /\ last.payload.channel = OtherChannel
    /\ last.res.ret = NoneVal
    /\ Len(last.res.sent) >= 2

ExpectedScore(n) ==
    CASE n = 7 -> "7"
      [] n = 1234 -> "1,234"
      [] n = 1000000 -> "1,000,000"

ExpectedLines(q, username) ==
    (IF "winning_user" \in DOMAIN q
     THEN "Correct: *Paris* -- " \o username \o " (today: "
             \o ExpectedScore(q.winning_user.score) \o " #2)"
     ELSE "Answer: *Paris*")
    \o "\n(1998) *Geography* for *400*"
    \o (IF "comment" \in DOMAIN q /\ q.comment # NoneVal /\ q.comment # ""
        THEN " _" \o q.comment \o "_" ELSE "")
    \o "\n>Capital of France?"

\* C12: format_question returns three lines joined by newlines: "Correct: ..."
\* with the winner's display name, score with thousands separators and rank
\* when there is a winning user and "Answer: ..." otherwise; "(year) *category*
\* for *value*" with " _comment_" appended only for a non-empty comment, a
\* record with no comment giving the line without the suffix and no error; ">"
\* followed by the question.
C12_ThreeLines ==
    last.op = "format_question" =>
        /\ ~last.raised
        /\ last.ret = ExpectedLines(last.question, last.username)

====
